---- MODULE Spec2Model ----
(***************************************************************************)
(* Model of the product synchronisation script csv_to_mx_business.py:      *)
(* the normalisers (DataValidator), the CSV loader (CSVLoader), the XML    *)
(* loader and persister (XMLManager), the reconciler and mutator           *)
(* (ProductSynchronizer) and the top-level run (main).                     *)
(*                                                                         *)
(* Text is a sequence of one-character strings, so that trimming, parsing  *)
(* and formatting are computed character by character as the code does.    *)
(* Prices are decimal text; the range limits are counted in cents.         *)
(***************************************************************************)
EXTENDS Integers, Sequences, FiniteSets, TLC

(***************************************************************************)
(* Bounds of the model.                                                    *)
(***************************************************************************)
MaxRows == 2
MaxItemRecords == 2
MaxBandRecords == 2
MaxLoadRows == 3
MaxRuns == 2

(***************************************************************************)
(* Config: price validation limits, in cents.                              *)
(***************************************************************************)
MIN_PRICE == 0
MAX_PRICE == 99999999

(***************************************************************************)
(* Text helpers (Python str / int / float / Decimal behaviour).            *)
(***************************************************************************)
Digits == {"0", "1", "2", "3", "4", "5", "6", "7", "8", "9"}

\* Python None as a row value (csv.DictReader's restval for a short row).
NoneVal == <<"None">>

DigitVal(c) ==
  CASE c = "0" -> 0 [] c = "1" -> 1 [] c = "2" -> 2 [] c = "3" -> 3
    [] c = "4" -> 4 [] c = "5" -> 5 [] c = "6" -> 6 [] c = "7" -> 7
    [] c = "8" -> 8 [] c = "9" -> 9

DigitChar(d) ==
  CASE d = 0 -> "0" [] d = 1 -> "1" [] d = 2 -> "2" [] d = 3 -> "3"
    [] d = 4 -> "4" [] d = 5 -> "5" [] d = 6 -> "6" [] d = 7 -> "7"
    [] d = 8 -> "8" [] d = 9 -> "9"

Front(s) == SubSeq(s, 1, Len(s) - 1)

\* the characters str.strip() removes
Whitespace == {" ", "\t", "\n", "\r"}

RECURSIVE LStrip(_)
LStrip(s) == IF s # <<>> /\ s[1] \in Whitespace THEN LStrip(Tail(s)) ELSE s

RECURSIVE RStrip(_)
RStrip(s) == IF s # <<>> /\ s[Len(s)] \in Whitespace THEN RStrip(Front(s)) ELSE s

\* str.strip()
Strip(s) == RStrip(LStrip(s))

AllDigits(s) == \A i \in DOMAIN s : s[i] \in Digits

RECURSIVE DigitsVal(_)
DigitsVal(s) ==
  IF s = <<>> THEN 0 ELSE DigitsVal(Front(s)) * 10 + DigitVal(s[Len(s)])

RECURSIVE NatToText(_)
NatToText(n) ==
  IF n < 10 THEN <<DigitChar(n)>>
  ELSE NatToText(n \div 10) \o <<DigitChar(n % 10)>>

\* str(n) of a Python int
IntToText(n) == IF n < 0 THEN <<"-">> \o NatToText(-n) ELSE NatToText(n)

RECURSIVE Pow10(_)
Pow10(k) == IF k = 0 THEN 1 ELSE 10 * Pow10(k - 1)

Unsigned(t) == IF t # <<>> /\ t[1] \in {"+", "-"} THEN Tail(t) ELSE t

\* int(t) succeeds: optional sign, then one or more digits (t already trimmed)
IntSyntax(t) == Unsigned(t) # <<>> /\ AllDigits(Unsigned(t))

IntValue(t) ==
  IF t[1] = "-" THEN 0 - DigitsVal(Unsigned(t)) ELSE DigitsVal(Unsigned(t))

CountOf(s, c) == Cardinality({i \in DOMAIN s : s[i] = c})

IndexOf(s, c) == CHOOSE i \in DOMAIN s : s[i] = c /\ \A j \in 1..(i - 1) : s[j] # c

\* Decimal(t) succeeds for text made of digits, ".", "-" only:
\* optional leading "-", digits with at most one ".", at least one digit
DecimalSyntax(t) ==
  LET u == IF t # <<>> /\ t[1] = "-" THEN Tail(t) ELSE t
  IN  /\ \A i \in DOMAIN u : u[i] \in Digits \cup {"."}
      /\ CountOf(u, ".") <= 1
      /\ \E i \in DOMAIN u : u[i] \in Digits

\* f"{Decimal(t):.2f}": two fractional digits, ROUND_HALF_EVEN, sign kept
FormatDecimal2(t) ==
  LET neg == t[1] = "-"
      u == IF neg THEN Tail(t) ELSE t
      dot == IF CountOf(u, ".") = 1 THEN IndexOf(u, ".") ELSE Len(u) + 1
      ip == SubSeq(u, 1, dot - 1)
      fp == SubSeq(u, dot + 1, Len(u))
      fp2 == SubSeq(fp \o <<"0", "0">>, 1, 2)
      rest == SubSeq(fp, 3, Len(fp))
      cents0 == DigitsVal(ip) * 100 + DigitsVal(fp2)
      half == rest # <<>> /\ rest[1] = "5"
                /\ \A i \in 2..Len(rest) : rest[i] = "0"
      above == rest # <<>> /\ DigitVal(rest[1]) >= 5 /\ ~half
      cents == IF above \/ (half /\ cents0 % 2 = 1) THEN cents0 + 1 ELSE cents0
  IN  (IF neg THEN <<"-">> ELSE <<>>)
        \o NatToText(cents \div 100) \o <<".">>
        \o <<DigitChar((cents % 100) \div 10), DigitChar(cents % 10)>>

\* float(t) succeeds (t trimmed): [sign] digits [. digits] [E [sign] digits]
\* with at least one mantissa digit; "inf"/"nan" make int() raise and take
\* the same except branch as a syntax error
FloatParts(t) ==
  LET u == Unsigned(t)
      epos == IF \E i \in DOMAIN u : u[i] \in {"e", "E"}
              THEN CHOOSE i \in DOMAIN u : u[i] \in {"e", "E"}
                     /\ \A j \in 1..(i - 1) : u[j] \notin {"e", "E"}
              ELSE Len(u) + 1
      man == SubSeq(u, 1, epos - 1)
      ex == SubSeq(u, epos + 1, Len(u))
      dot == IF CountOf(man, ".") >= 1 THEN IndexOf(man, ".") ELSE Len(man) + 1
      ip == SubSeq(man, 1, dot - 1)
      fp == SubSeq(man, dot + 1, Len(man))
  IN  [neg |-> t # <<>> /\ t[1] = "-", ip |-> ip, fp |-> fp, ex |-> ex,
       hasExp |-> epos <= Len(u)]

FloatSyntax(t) ==
  LET p == FloatParts(t)
  IN  /\ AllDigits(p.ip) /\ AllDigits(p.fp)
      /\ Len(p.ip) + Len(p.fp) >= 1
      /\ p.hasExp => IntSyntax(p.ex)

\* int(float(t)): truncation toward zero
FloatTrunc(t) ==
  LET p == FloatParts(t)
      e == IF p.hasExp THEN IntValue(p.ex) ELSE 0
      scale == e - Len(p.fp)
      all == DigitsVal(p.ip \o p.fp)
      mag == IF scale >= 0 THEN all * Pow10(scale) ELSE all \div Pow10(0 - scale)
  IN  IF p.neg THEN 0 - mag ELSE mag

IsDigitChar(c) == c \in Digits

IsPriceChar(c) == c \in Digits \cup {".", ",", "-"}

(***************************************************************************)
(* DataValidator                                                           *)
(***************************************************************************)
ZeroPrice == <<"0", ".", "0", "0">>

normalize_price(value) ==
  IF value = <<>> \/ Strip(value) = <<>> THEN ZeroPrice
  ELSE LET c0 == SelectSeq(Strip(value), IsPriceChar)
           cleaned == IF CountOf(c0, ",") > 0 /\ CountOf(c0, ".") = 0
                      THEN [i \in DOMAIN c0 |-> IF c0[i] = "," THEN "." ELSE c0[i]]
                      ELSE c0
       IN  IF DecimalSyntax(cleaned) THEN FormatDecimal2(cleaned) ELSE ZeroPrice

normalize_ean(value) ==
  IF value = NoneVal \/ value = <<>> \/ Strip(value) = <<>> THEN <<"0">>
  ELSE IF FloatSyntax(Strip(value)) THEN IntToText(FloatTrunc(Strip(value)))
  ELSE LET digits_only == SelectSeq(value, IsDigitChar)
       IN  IF digits_only # <<>> THEN digits_only ELSE <<"0">>

safe_int_conversion(value, default) ==
  IF value = NoneVal \/ value = <<>> \/ Strip(value) = <<>> THEN default
  ELSE IF IntSyntax(Strip(value)) THEN IntValue(Strip(value))
  ELSE default

\* value in cents of a price text of the shape [-]d+.dd
PriceCents(price) ==
  LET neg == price[1] = "-"
      u == IF neg THEN Tail(price) ELSE price
      c == DigitsVal(SubSeq(u, 1, Len(u) - 3)) * 100
             + DigitsVal(SubSeq(u, Len(u) - 1, Len(u)))
  IN  IF neg THEN 0 - c ELSE c

\* variant with an exclusive upper limit, against which C8 is compared
validate_price_range_exclusive(price) ==
  LET price_val == PriceCents(price)
  IN  MIN_PRICE <= price_val /\ price_val < MAX_PRICE

\* float(price) always parses the output of normalize_price
validate_price_range(price) ==
  LET price_val == PriceCents(price)
  IN  MIN_PRICE <= price_val /\ price_val <= MAX_PRICE

(***************************************************************************)
(* State of one installation: the two files and the running script.        *)
(***************************************************************************)
VARIABLES
  csv_file,       \* the CSV export: sequence of rows (column name -> text)
  csv_exists,     \* Config.CSV_FILE exists
  disk,           \* the XML database file, as a parser reads it, and its backups
  run,            \* number of the current invocation of main
  pc,             \* position of main
  csv_products,   \* CSVLoader.load: accepted products
  skipped_count,  \* CSVLoader.load: skipped rows
  xml_products,   \* XMLManager.load: products of table ITEM
  root,           \* the in-memory document tree
  csv_dict,       \* sync: source map, in insertion order
  xml_dict,       \* sync: target map, in insertion order
  key_idx,        \* index of the next key of csv_dict to process
  stats,          \* ProductSynchronizer.stats
  log,            \* outcome lines written by logging
  printed,        \* print_summary_statistics was called in this run
  result          \* return value of main (-1 while running)

vars == <<csv_file, csv_exists, disk, run, pc, csv_products,
          skipped_count, xml_products, root, csv_dict, xml_dict, key_idx,
          stats, log, printed, result>>

\* datetime.datetime.now().strftime(...): one clock reading per invocation
current_ts == <<"T">> \o NatToText(run)

(***************************************************************************)
(* CSVLoader                                                               *)
(***************************************************************************)
\* row.get(col, default)
RowGet(row, col, default) == IF col \in DOMAIN row THEN row[col] ELSE default

ProductTypes == {0, 1, 2, 4, 6, 9, 99}

Product(plu, name, ean, price, dept, text_area, product_type, multiplier, barcode, print_format, ts) ==
  ("PLU" :> plu) @@ ("Name" :> name) @@ ("EAN" :> ean) @@ ("Price" :> price)
    @@ ("Department ID" :> dept) @@ ("Text Area (1)" :> text_area)
    @@ ("Product Type" :> product_type)
    @@ ("Price Modifier Multiplier" :> multiplier)
    @@ ("Barcode Format ID" :> barcode) @@ ("Print Format ID" :> print_format)
    @@ ("_TS" :> ts)

\* variant that saturates at the nearer limit, against which C10 is compared
ClampMultiplierSaturating(m) == IF m < 1 THEN 1 ELSE IF m > 100 THEN 100 ELSE m

\* clamp of the multiplier in _process_row
ClampMultiplier(m) == IF m < 1 \/ m > 100 THEN 1 ELSE m

\* what _process_row does with a row: "ok" (a product is returned),
\* "price", "plu", "type" (None is returned), "raise" (.strip() of None)
RowOutcome(row) ==
  LET raw == RowGet(row, "Retail Price (1st)", <<>>)
  IN  IF raw = NoneVal THEN "raise"
      ELSE IF ~validate_price_range(normalize_price(Strip(raw))) THEN "price"
      ELSE IF safe_int_conversion(RowGet(row, "PLU Number", <<>>), 0) = 0
        THEN "plu"
      ELSE IF safe_int_conversion(RowGet(row, "Product Type", <<>>), 0)
                \notin ProductTypes
        THEN "type"
      ELSE IF RowGet(row, "Display Text", <<>>) = NoneVal
                \/ RowGet(row, "Text Area (1)", <<>>) = NoneVal
        THEN "raise"
      ELSE "ok"

\* the product _process_row returns for a row with RowOutcome(row) = "ok"
_process_row(row, ts) ==
  Product(safe_int_conversion(RowGet(row, "PLU Number", <<>>), 0),
          Strip(RowGet(row, "Display Text", <<>>)),
          safe_int_conversion(normalize_ean(RowGet(row, "EAN Code", <<>>)), 0),
          normalize_price(Strip(RowGet(row, "Retail Price (1st)", <<>>))),
          safe_int_conversion(RowGet(row, "Department ID", <<>>), 0),
          Strip(RowGet(row, "Text Area (1)", <<>>)),
          safe_int_conversion(RowGet(row, "Product Type", <<>>), 0),
          ClampMultiplier(
            safe_int_conversion(RowGet(row, "Price Modifier Multiplier", <<"1">>), 1)),
          safe_int_conversion(RowGet(row, "Barcode Format ID", <<"0">>), 0),
          safe_int_conversion(RowGet(row, "Print Format ID", <<"0">>), 0),
          ts)

\* _process_row warns that the multiplier is out of range (reached only
\* after the price, PLU and Product Type checks)
MultiplierWarned(row) ==
  /\ RowOutcome(row) \in {"ok", "raise"}
  /\ RowGet(row, "Retail Price (1st)", <<>>) # NoneVal
  /\ LET m == safe_int_conversion(
                RowGet(row, "Price Modifier Multiplier", <<"1">>), 1)
     IN  m < 1 \/ m > 100

\* the lines logged for one row, with the row number of the message
RowLog(row, n) ==
  LET outcome == RowOutcome(row)
  IN  (IF MultiplierWarned(row) THEN << <<"invalid_multiplier", n>> >> ELSE <<>>)
        \o (CASE outcome = "price" -> << <<"invalid_price", n>> >>
              [] outcome = "plu" -> << <<"invalid_plu", n>> >>
              [] outcome = "type" -> << <<"invalid_type", n>> >>
              [] outcome = "raise" -> << <<"row_error", n>> >>
              [] OTHER -> <<>>)

\* variant in which the first rejected row ends the load, against which C7
\* is compared
LoadedProductsAbort(rows, ts) ==
  LET bad == {i \in DOMAIN rows : RowOutcome(rows[i]) # "ok"}
      n == IF bad = {} THEN Len(rows)
           ELSE (CHOOSE i \in bad : \A j \in bad : i <= j) - 1
  IN  [i \in 1..n |-> _process_row(rows[i], ts)]

\* the loop of CSVLoader.load over the rows (numbered from 2): a row whose
\* processing returns None or raises is counted and the loop goes on
RECURSIVE LoadedProducts(_, _)
LoadedProducts(rows, ts) ==
  IF rows = <<>> THEN <<>>
  ELSE IF RowOutcome(rows[Len(rows)]) = "ok"
    THEN Append(LoadedProducts(Front(rows), ts), _process_row(rows[Len(rows)], ts))
  ELSE LoadedProducts(Front(rows), ts)

RECURSIVE SkippedRows(_)
SkippedRows(rows) ==
  IF rows = <<>> THEN 0
  ELSE SkippedRows(Front(rows))
         + (IF RowOutcome(rows[Len(rows)]) = "ok" THEN 0 ELSE 1)

RECURSIVE LoadLog(_)
LoadLog(rows) ==
  IF rows = <<>> THEN <<>>
  ELSE LoadLog(Front(rows)) \o RowLog(rows[Len(rows)], Len(rows) + 1)

\* csv_loader.load() in main: the file is missing (ProductSyncError), or
\* every row is processed and the accepted products are returned
CsvLoad ==
  /\ pc = "main"
  /\ IF csv_exists
       THEN /\ csv_products' = LoadedProducts(csv_file, current_ts)
            /\ skipped_count' = SkippedRows(csv_file)
            /\ log' = log \o LoadLog(csv_file)
            /\ pc' = "xml_load"
            /\ UNCHANGED result
       ELSE /\ pc' = "failed"
            /\ result' = 1
            /\ UNCHANGED <<csv_products, skipped_count, log>>
  /\ UNCHANGED <<csv_file, csv_exists, disk, run, xml_products, root,
                 csv_dict, xml_dict, key_idx, stats, printed>>

(***************************************************************************)
(* The document tree: table ITEM and table 'ITEM in Band', each an ordered *)
(* list of records; a record maps column_name to the field's text.  A      *)
(* field without text (None) is the empty text: the code reads it through  *)
(* (text or ""), (text or "0") or a truth test everywhere.                 *)
(***************************************************************************)
Tree(hasItem, item, hasBand, band) ==
  [hasItem |-> hasItem, item |-> item, hasBand |-> hasBand, band |-> band]

EmptyTree == Tree(FALSE, <<>>, FALSE, <<>>)

\* the key under which a <field> without a column_name attribute shows up:
\* building the fields dictionary of such a record raises KeyError
NoColumnName == "?"

Malformed(record) == NoColumnName \in DOMAIN record

\* fields.get(col, default) on {column_name: (text or "").strip()}
FieldGet(record, col, default) ==
  IF col \in DOMAIN record THEN Strip(record[col]) ELSE default

(***************************************************************************)
(* XMLManager                                                              *)
(***************************************************************************)
\* text of a field as ET.parse returns it: the parser reads a carriage
\* return, alone or followed by a line feed, as one line feed; tree.write
\* escapes &, < and > only, so every other character is read back as written
RECURSIVE XmlEol(_)
XmlEol(text) ==
  IF text = <<>> THEN <<>>
  ELSE IF text[1] = "\r"
    THEN <<"\n">> \o XmlEol(IF Len(text) >= 2 /\ text[2] = "\n"
                               THEN SubSeq(text, 3, Len(text)) ELSE Tail(text))
  ELSE <<text[1]>> \o XmlEol(Tail(text))

ParsedRecord(record) == [c \in DOMAIN record |-> XmlEol(record[c])]

\* the document a file holds after tree.write(tree), as ET.parse reads it
ParsedTree(tree) ==
  [tree EXCEPT !.item = [i \in DOMAIN tree.item |-> ParsedRecord(tree.item[i])],
               !.band = [j \in DOMAIN tree.band |-> ParsedRecord(tree.band[j])]]

ProductOfRecord(record, ts) ==
  Product(safe_int_conversion(FieldGet(record, "PLU Number", <<>>), 0),
          FieldGet(record, "Display Text", <<>>),
          safe_int_conversion(normalize_ean(FieldGet(record, "EAN Code", <<>>)), 0),
          normalize_price(FieldGet(record, "Retail Price (1st)", <<>>)),
          safe_int_conversion(FieldGet(record, "Department ID", <<>>), 0),
          FieldGet(record, "Text Area (1)", <<>>),
          safe_int_conversion(FieldGet(record, "Product Type", <<>>), 0),
          safe_int_conversion(FieldGet(record, "Price Modifier Multiplier", <<"1">>), 1),
          safe_int_conversion(FieldGet(record, "Barcode Format ID", <<"0">>), 0),
          safe_int_conversion(FieldGet(record, "Print Format ID", <<"0">>), 0),
          ts)

_extract_products(tree, ts) ==
  [i \in DOMAIN tree.item |-> ProductOfRecord(tree.item[i], ts)]

\* variant that goes on with an empty document when the file cannot be
\* loaded, against which C16 is compared
XmlLoadLenient ==
  /\ pc = "xml_load"
  /\ root' = IF disk.xml_exists /\ disk.wellformed THEN disk.xml ELSE EmptyTree
  /\ xml_products' = _extract_products(root', current_ts)
  /\ pc' = "sync"
  /\ UNCHANGED <<csv_file, csv_exists, disk, run, csv_products,
                 skipped_count, csv_dict, xml_dict, key_idx, stats, log,
                 printed, result>>

\* XMLManager.load: the file is missing, unparsable, holds an ITEM field
\* without column_name (KeyError in _extract_products), or is loaded
XmlLoad ==
  /\ pc = "xml_load"
  /\ IF /\ disk.xml_exists
        /\ disk.wellformed
        /\ \A i \in DOMAIN disk.xml.item : ~Malformed(disk.xml.item[i])
       THEN /\ root' = disk.xml
            /\ xml_products' = _extract_products(disk.xml, current_ts)
            /\ pc' = "sync"
            /\ UNCHANGED result
       ELSE /\ pc' = "failed"
            /\ result' = 1
            /\ UNCHANGED <<root, xml_products>>
  /\ UNCHANGED <<csv_file, csv_exists, disk, run, csv_products,
                 skipped_count, csv_dict, xml_dict, key_idx, stats, log,
                 printed>>

(***************************************************************************)
(* ProductSynchronizer                                                     *)
(***************************************************************************)
Key(p) == <<p["PLU"], p["Department ID"]>>

Keys(dict) == {Key(dict[i]) : i \in DOMAIN dict}

\* position of a key in an insertion-ordered dictionary
Slot(dict, k) == CHOOSE i \in DOMAIN dict : Key(dict[i]) = k

\* variant in which the first value stored under a key is kept, against
\* which C5 is compared
DictPutFirst(d, p) ==
  IF Key(p) \in Keys(d) THEN d ELSE Append(d, p)

\* d[key] = p of a Python dict: a new key goes last, an old key keeps its place
DictPut(d, p) ==
  IF Key(p) \in Keys(d) THEN [d EXCEPT ![Slot(d, Key(p))] = p] ELSE Append(d, p)

\* variant that lets every key into the maps, against which C6 is compared
TruthyAlways(n) == n = n

\* truth test of an integer PLU or Department ID
Truthy(n) == n # 0

\* {(p["PLU"], p["Department ID"]): p for p in products if p["PLU"] and p["Department ID"]}
RECURSIVE DictOf(_)
DictOf(products) ==
  IF products = <<>> THEN <<>>
  ELSE LET p == products[Len(products)]
           d == DictOf(Front(products))
       IN  IF Truthy(p["PLU"]) /\ Truthy(p["Department ID"])
             THEN DictPut(d, p) ELSE d

\* variant that reports every target key, against which C3 is compared
DeleteCandidatesAll(cd, xd) == [i \in DOMAIN xd |-> Key(xd[i])]

\* _process_deletions: the keys logged and counted, in the order of xml_dict
DeleteCandidates(cd, xd) ==
  SelectSeq([i \in DOMAIN xd |-> Key(xd[i])], LAMBDA k : k \notin Keys(cd))

LogLine(kind, k) == <<kind, k[1], k[2]>>

\* ProductSynchronizer.sync up to the loop of _process_updates_and_additions
SyncStart ==
  /\ pc = "sync"
  /\ csv_dict' = DictOf(csv_products)
  /\ xml_dict' = DictOf(xml_products)
  /\ LET cands == DeleteCandidates(csv_dict', xml_dict')
     IN  /\ stats' = [stats EXCEPT !.deleted = @ + Len(cands)]
         /\ log' = log \o [i \in DOMAIN cands |-> LogLine("should_be_deleted", cands[i])]
  /\ key_idx' = 1
  /\ pc' = "sync_loop"
  /\ UNCHANGED <<csv_file, csv_exists, disk, run, csv_products,
                 skipped_count, xml_products, root, printed, result>>

_match_product_record(fields, plu, dept_id) ==
  /\ "PLU Number" \in DOMAIN fields
  /\ "Department ID" \in DOMAIN fields
  /\ fields["PLU Number"] # <<>>
  /\ fields["Department ID"] # <<>>
  /\ Strip(fields["PLU Number"]) = IntToText(plu)
  /\ Strip(fields["Department ID"]) = IntToText(dept_id)

update_mappings ==
  << <<"Display Text", "Name">>,
     <<"EAN Code", "EAN">>,
     <<"Retail Price (1st)", "Price">>,
     <<"Text Area (1)", "Text Area (1)">>,
     <<"Product Type", "Product Type">>,
     <<"Price Modifier Multiplier", "Price Modifier Multiplier">>,
     <<"Barcode Format ID", "Barcode Format ID">>,
     <<"Print Format ID", "Print Format ID">>,
     <<"Display Button Text", "Name">> >>

MappedColumns == {update_mappings[m][1] : m \in DOMAIN update_mappings}

CsvKeyOf(xml_col) ==
  update_mappings[CHOOSE m \in DOMAIN update_mappings :
                    update_mappings[m][1] = xml_col][2]

\* str(csv_prod[csv_key])
StrOf(csv_prod, csv_key) ==
  IF csv_key \in {"Name", "Price", "Text Area (1)", "_TS"}
    THEN csv_prod[csv_key] ELSE IntToText(csv_prod[csv_key])

\* record with the field created or its text replaced
SetField(record, col, text) ==
  [c \in DOMAIN record \cup {col} |-> IF c = col THEN text ELSE record[c]]

\* the mapped columns present in the record whose text differs from the source
ChangedColumns(record, csv_prod) ==
  {c \in MappedColumns \cap DOMAIN record :
     record[c] # StrOf(csv_prod, CsvKeyOf(c))}

\* variant that flags every matched record as changed, against which C11
\* is compared
UpdatedRecordAlwaysFlagged(record, csv_prod, ts) ==
  LET r1 == [c \in DOMAIN record |->
               IF c \in ChangedColumns(record, csv_prod)
                 THEN StrOf(csv_prod, CsvKeyOf(c)) ELSE record[c]]
  IN  SetField(SetField(r1, "_TS", ts), "_CF", <<"1">>)

\* the record after the loop over update_mappings and the _TS / _CF stamping
UpdatedRecord(record, csv_prod, ts) ==
  LET updated == ChangedColumns(record, csv_prod) # {}
      r1 == [c \in DOMAIN record |->
               IF c \in ChangedColumns(record, csv_prod)
                 THEN StrOf(csv_prod, CsvKeyOf(c)) ELSE record[c]]
      r2 == IF updated \/ "_TS" \notin DOMAIN record
              THEN SetField(r1, "_TS", ts) ELSE r1
  IN  IF updated THEN SetField(r2, "_CF", <<"1">>) ELSE r2

\* variant that goes to the last such record, against which C14 is compared
LastIndex(stops) ==
  IF stops = {} THEN 0 ELSE CHOOSE i \in stops : \A j \in stops : j <= i

\* index of the first record the loop stops at: 0 when it runs to the end
FirstIndex(stops) ==
  IF stops = {} THEN 0 ELSE CHOOSE i \in stops : \A j \in stops : i <= j

\* the band record after _update_item_in_band matched it
UpdatedBandRecord(record, new_price, ts) ==
  LET old_price == IF record["Retail Price (1st)"] = <<>>
                     THEN <<"0">> ELSE record["Retail Price (1st)"]
      r1 == IF "Retail Price (1st)" \in DOMAIN record /\ old_price # new_price
              THEN [record EXCEPT !["Retail Price (1st)"] = new_price]
              ELSE record
  IN  SetField(SetField(r1, "_TS", ts), "_CF", <<"1">>)

\* variant that makes the band record it does not find, against which C13
\* is compared
_update_item_in_band_fabricating(band, plu, dept_id, new_price, ts) ==
  LET Stop(r) == _match_product_record(r, plu, dept_id)
      i == FirstIndex({n \in DOMAIN band : Stop(band[n])})
  IN  IF i = 0
        THEN [band |-> Append(band, ("Band ID" :> <<"0">>)
                                      @@ ("Department ID" :> IntToText(dept_id))
                                      @@ ("PLU Number" :> IntToText(plu))
                                      @@ ("Retail Price (1st)" :> new_price)
                                      @@ ("_TS" :> ts) @@ ("_CF" :> <<"1">>)),
              found |-> TRUE, raised |-> FALSE]
        ELSE [band |-> [band EXCEPT ![i] = UpdatedBandRecord(band[i], new_price, ts)],
              found |-> TRUE, raised |-> FALSE]

\* _update_item_in_band: the band table afterwards, whether a record was
\* found, and whether building a fields dictionary raised on the way
_update_item_in_band(band, plu, dept_id, new_price, ts) ==
  LET Stop(r) == Malformed(r) \/ _match_product_record(r, plu, dept_id)
      i == FirstIndex({n \in DOMAIN band : Stop(band[n])})
  IN  IF i = 0 THEN [band |-> band, found |-> FALSE, raised |-> FALSE]
      ELSE IF Malformed(band[i])
        THEN [band |-> band, found |-> FALSE, raised |-> TRUE]
      ELSE [band |-> [band EXCEPT ![i] = UpdatedBandRecord(band[i], new_price, ts)],
            found |-> TRUE, raised |-> FALSE]

_get_default_field_values(csv_prod, plu, dept_id, ts) ==
  ("Text Area (1)" :> csv_prod["Text Area (1)"])
    @@ ("Cost Price" :> <<"0">>)
    @@ ("Display Text" :> csv_prod["Name"])
    @@ ("EAN Code" :> IntToText(csv_prod["EAN"]))
    @@ ("GTIN" :> <<"0">>)
    @@ ("Retail Price (1st)" :> csv_prod["Price"])
    @@ ("PLU Number" :> IntToText(plu))
    @@ ("Container ID" :> <<"0">>)
    @@ ("Department ID" :> IntToText(dept_id))
    @@ ("Product Type" :> IntToText(csv_prod["Product Type"]))
    @@ ("Margin" :> <<"1", "0", "0">>)
    @@ ("Barcode Print Control" :> <<"0">>)
    @@ ("Barcode Format ID" :> IntToText(csv_prod["Barcode Format ID"]))
    @@ ("Sales Only ITEM" :> <<"0">>)
    @@ ("Scale ITEM Type" :> <<"0">>)
    @@ ("Container Tare Type" :> <<"0">>)
    @@ ("Nominal Weight Value" :> <<"0">>)
    @@ ("Proportional Tare Value" :> <<"0">>)
    @@ ("Nominal Volume" :> <<"0">>)
    @@ ("Date Offset (1)" :> <<"0">>)
    @@ ("Date Offset (2)" :> <<"0">>)
    @@ ("Date Print Control (1)" :> <<"0">>)
    @@ ("Date Print Control (2)" :> <<"0">>)
    @@ ("Text Area (2)" :> <<>>)
    @@ ("Text Area (3)" :> <<>>)
    @@ ("Text Area (4)" :> <<>>)
    @@ ("Text Area (5 Serving Size Description)" :> <<>>)
    @@ ("Text Area (6 Servings Per Description)" :> <<>>)
    @@ ("Message ID (1)" :> <<"0">>)
    @@ ("Message ID (2)" :> <<"0">>)
    @@ ("Message Category ID (1)" :> <<"1", "4">>)
    @@ ("Message Category ID (2)" :> <<"1", "4">>)
    @@ ("Discount Percentage (1)" :> <<"0">>)
    @@ ("Items Free (1)" :> <<"0">>)
    @@ ("ITEM Discount Type" :> <<"1">>)
    @@ ("Promotion Control" :> <<"0">>)
    @@ ("Print Promotion Message" :> <<"0">>)
    @@ ("Promotion Type" :> <<"0">>)
    @@ ("Promotion Voucher Id" :> <<"0">>)
    @@ ("Retail Price (2nd / Freq Shopper Alternate Price)" :> <<"0">>)
    @@ ("Message ID (Promotion Message)" :> <<"0">>)
    @@ ("Time Period ID" :> <<"0">>)
    @@ ("Voucher Amount" :> <<"0">>)
    @@ ("Weight Free (1)" :> <<"0">>)
    @@ ("Discount Amount Money Off (1)" :> <<"0">>)
    @@ ("Weight Break Quantity (1)" :> <<"0">>)
    @@ ("Weight Break Quantity (2)" :> <<"0">>)
    @@ ("Item Break Quantity (1)" :> <<"0">>)
    @@ ("Item Break Quantity (2)" :> <<"0">>)
    @@ ("Item Promotion Quantity Limit" :> <<"0">>)
    @@ ("Weight Promotion Quantity Limit" :> <<"0">>)
    @@ ("Promotion Transaction Limit" :> <<"0">>)
    @@ ("Retail Price (Break 1)" :> <<"0">>)
    @@ ("Retail Price (Break 2)" :> <<"0">>)
    @@ ("Keyboard ID (Dynamic 1)" :> <<"0">>)
    @@ ("Group ID" :> <<"0">>)
    @@ ("Information Voucher Id" :> <<"0">>)
    @@ ("Print Format ID" :> IntToText(csv_prod["Print Format ID"]))
    @@ ("Print Format Type Control" :> <<"0">>)
    @@ ("Print Format ID (Nutritional Label)" :> <<"1", "0", "0">>)
    @@ ("Media ID (1)" :> <<"0">>)
    @@ ("ITEM Logo Control" :> <<"0">>)
    @@ ("ITEM Logo Promotion Mode" :> <<"0">>)
    @@ ("ITEM Logo Type" :> <<"0">>)
    @@ ("Interactive Traceability Mode" :> <<"0">>)
    @@ ("Traceability Linked ITEM" :> <<"0">>)
    @@ ("Traceability ITEM" :> <<"0">>)
    @@ ("Traceability Scheme Id" :> <<"1">>)
    @@ ("Negative By Count" :> <<"0">>)
    @@ ("Tax Rate ID (Primary)" :> <<"0">>)
    @@ ("Tax Rate ID (Secondary)" :> <<"0">>)
    @@ ("Price Modifier Multiplier" :> IntToText(csv_prod["Price Modifier Multiplier"]))
    @@ ("Price Modifier Divider" :> <<"1">>)
    @@ ("Message Category ID (Promotion Message)" :> <<"1", "4">>)
    @@ ("_TS" :> ts)
    @@ ("_CF" :> <<"1">>)
    @@ ("Display Button Text" :> csv_prod["Name"])

\* the record _add_item_in_band appends
BandRecord(plu, dept_id, price, ts) ==
  ("Band ID" :> <<"0">>)
    @@ ("Department ID" :> IntToText(dept_id))
    @@ ("PLU Number" :> IntToText(plu))
    @@ ("Retail Price (1st)" :> price)
    @@ ("Retail Price (Break 1)" :> <<"0">>)
    @@ ("Retail Price (Break 2)" :> <<"0">>)
    @@ ("Retail Price (Break 3)" :> <<"0">>)
    @@ ("Retail Price (2nd / Freq Shopper Alternate Price)" :> <<"0">>)
    @@ ("_TS" :> ts)
    @@ ("_CF" :> <<"1">>)

\* variant that creates the missing table, against which C12 is compared
_add_item_in_band_creating(tree, plu, dept_id, price, ts) ==
  [tree EXCEPT !.hasBand = TRUE,
               !.band = Append(@, BandRecord(plu, dept_id, price, ts))]

\* variant that puts the new band record before the others, against which
\* C23 is compared
_add_item_in_band_prepending(tree, plu, dept_id, price, ts) ==
  IF ~tree.hasBand THEN tree
  ELSE [tree EXCEPT !.band = <<BandRecord(plu, dept_id, price, ts)>> \o @]

\* variant that makes no band record, against which C1 is compared
_add_item_in_band_skipped(tree, plu, dept_id, price, ts) == tree

\* _add_item_in_band: without table 'ITEM in Band' a warning and nothing else
_add_item_in_band(tree, plu, dept_id, price, ts) ==
  IF ~tree.hasBand THEN tree
  ELSE [tree EXCEPT !.band = Append(@, BandRecord(plu, dept_id, price, ts))]

\* _update_existing_product for the key at key_idx, inside the try of
\* _process_updates_and_additions
UpdateExistingProduct ==
  /\ pc = "sync_loop"
  /\ key_idx <= Len(csv_dict)
  /\ Key(csv_dict[key_idx]) \in Keys(xml_dict)
  /\ LET csv_prod == csv_dict[key_idx]
         plu == csv_prod["PLU"]
         dept_id == csv_prod["Department ID"]
         Match(r) == _match_product_record(r, plu, dept_id)
         i == FirstIndex({n \in DOMAIN root.item : Match(root.item[n])})
     IN  IF i = 0
           THEN UNCHANGED <<root, stats, log>>
           ELSE LET record == root.item[i]
                    updated == ChangedColumns(record, csv_prod) # {}
                    price_updated ==
                      "Retail Price (1st)" \in ChangedColumns(record, csv_prod)
                    item1 == [root.item EXCEPT
                                ![i] = UpdatedRecord(record, csv_prod, current_ts)]
                    b == _update_item_in_band(root.band, plu, dept_id,
                                              csv_prod["Price"], current_ts)
                IN  IF price_updated /\ b.raised
                      THEN /\ root' = [root EXCEPT !.item = item1]
                           /\ stats' = [stats EXCEPT !.errors = @ + 1]
                           /\ log' = Append(log, LogLine("error", Key(csv_prod)))
                      ELSE /\ root' = [root EXCEPT
                                        !.item = item1,
                                        !.band = IF price_updated THEN b.band ELSE @]
                           /\ stats' = [stats EXCEPT
                                         !.updated = IF updated THEN @ + 1 ELSE @]
                           /\ log' = log
                                \o (IF price_updated /\ ~b.found
                                      THEN <<LogLine("no_band_record", Key(csv_prod))>>
                                      ELSE <<>>)
                                \o (IF updated
                                      THEN <<LogLine("updated", Key(csv_prod))>>
                                      ELSE <<>>)
  /\ key_idx' = key_idx + 1
  /\ UNCHANGED <<csv_file, csv_exists, disk, run, pc, csv_products,
                 skipped_count, xml_products, csv_dict, xml_dict, printed,
                 result>>

\* variant in which the exception of one key ends the loop, against which
\* C24 is compared
AddNewProductAborting ==
  /\ pc = "sync_loop"
  /\ key_idx <= Len(csv_dict)
  /\ Key(csv_dict[key_idx]) \notin Keys(xml_dict)
  /\ LET csv_prod == [csv_dict[key_idx] EXCEPT !["_TS"] = current_ts]
         plu == csv_prod["PLU"]
         dept_id == csv_prod["Department ID"]
         new_record == _get_default_field_values(csv_prod, plu, dept_id, current_ts)
     IN  /\ csv_dict' = [csv_dict EXCEPT ![key_idx] = csv_prod]
         /\ IF ~root.hasItem
              THEN /\ stats' = [stats EXCEPT !.errors = @ + 1]
                   /\ log' = Append(log, LogLine("error", Key(csv_prod)))
                   /\ key_idx' = Len(csv_dict) + 1
                   /\ UNCHANGED root
              ELSE /\ root' = _add_item_in_band(
                                [root EXCEPT !.item = Append(@, new_record)],
                                plu, dept_id, csv_prod["Price"], current_ts)
                   /\ stats' = [stats EXCEPT !.added = @ + 1]
                   /\ log' = Append(log, LogLine("added", Key(csv_prod)))
                   /\ key_idx' = key_idx + 1
  /\ UNCHANGED <<csv_file, csv_exists, disk, run, pc, csv_products,
                 skipped_count, xml_products, xml_dict, printed, result>>

\* _add_new_product for the key at key_idx, inside the same try
AddNewProduct ==
  /\ pc = "sync_loop"
  /\ key_idx <= Len(csv_dict)
  /\ Key(csv_dict[key_idx]) \notin Keys(xml_dict)
  /\ LET csv_prod == [csv_dict[key_idx] EXCEPT !["_TS"] = current_ts]
         plu == csv_prod["PLU"]
         dept_id == csv_prod["Department ID"]
         new_record == _get_default_field_values(csv_prod, plu, dept_id, current_ts)
     IN  /\ csv_dict' = [csv_dict EXCEPT ![key_idx] = csv_prod]
         /\ IF ~root.hasItem
              THEN /\ stats' = [stats EXCEPT !.errors = @ + 1]
                   /\ log' = Append(log, LogLine("error", Key(csv_prod)))
                   /\ UNCHANGED root
              ELSE /\ root' = _add_item_in_band(
                                [root EXCEPT !.item = Append(@, new_record)],
                                plu, dept_id, csv_prod["Price"], current_ts)
                   /\ stats' = [stats EXCEPT !.added = @ + 1]
                   /\ log' = Append(log, LogLine("added", Key(csv_prod)))
  /\ key_idx' = key_idx + 1
  /\ UNCHANGED <<csv_file, csv_exists, disk, run, pc, csv_products,
                 skipped_count, xml_products, xml_dict, printed, result>>

\* sync returns the statistics
SyncEnd ==
  /\ pc = "sync_loop"
  /\ key_idx > Len(csv_dict)
  /\ pc' = "save"
  /\ UNCHANGED <<csv_file, csv_exists, disk, run, csv_products,
                 skipped_count, xml_products, root, csv_dict, xml_dict,
                 key_idx, stats, log, printed, result>>

\* variant of save that writes over the destination without a backup,
\* against which C17 is compared
SaveInPlace ==
  /\ pc = "save"
  /\ \E outcome \in {"saved", "write_fails"} :
       \/ /\ outcome = "saved"
          /\ disk' = [disk EXCEPT !.xml = ParsedTree(root),
                                  !.xml_exists = TRUE,
                                  !.wellformed = TRUE]
          /\ pc' = "summary"
          /\ UNCHANGED result
       \/ /\ outcome = "write_fails"
          /\ \E partial \in BOOLEAN :
               disk' = [disk EXCEPT !.xml_exists = partial,
                                    !.wellformed = FALSE]
          /\ pc' = "failed"
          /\ result' = 1
  /\ UNCHANGED <<csv_file, csv_exists, run, csv_products,
                 skipped_count, xml_products, root, csv_dict, xml_dict,
                 key_idx, stats, log, printed>>

\* XMLManager.save(tree, backup=True): rename to the backup path, then write;
\* either file operation may fail, which raises ProductSyncError
Save ==
  /\ pc = "save"
  /\ \E outcome \in {"saved", "rename_fails", "write_fails"} :
       LET renamed == [disk EXCEPT !.backups = Append(@, disk.xml),
                                   !.xml_exists = FALSE]
           before_write == IF disk.xml_exists THEN renamed ELSE disk
       IN  \/ /\ outcome = "saved"
              /\ disk' = [before_write EXCEPT !.xml = ParsedTree(root),
                                              !.xml_exists = TRUE,
                                              !.wellformed = TRUE]
              /\ pc' = "summary"
              /\ UNCHANGED result
           \/ /\ outcome = "rename_fails"
              /\ disk.xml_exists
              /\ UNCHANGED disk
              /\ pc' = "failed"
              /\ result' = 1
           \/ /\ outcome = "write_fails"
              /\ \E partial \in BOOLEAN :
                   disk' = [before_write EXCEPT !.xml_exists = partial,
                                                !.wellformed = FALSE]
              /\ pc' = "failed"
              /\ result' = 1
  /\ UNCHANGED <<csv_file, csv_exists, run, csv_products,
                 skipped_count, xml_products, root, csv_dict, xml_dict,
                 key_idx, stats, log, printed>>

\* print_summary_statistics and return 0
PrintSummary ==
  /\ pc = "summary"
  /\ printed' = TRUE
  /\ result' = 0
  /\ pc' = "done"
  /\ UNCHANGED <<csv_file, csv_exists, disk, run, csv_products,
                 skipped_count, xml_products, root, csv_dict, xml_dict,
                 key_idx, stats, log>>

NoStats == [added |-> 0, updated |-> 0, deleted |-> 0, errors |-> 0]

\* after a completed run the script is invoked again, as a fresh process,
\* on the files that run left
Rerun ==
  /\ pc = "done"
  /\ run < MaxRuns
  /\ run' = run + 1
  /\ pc' = "main"
  /\ csv_products' = <<>>
  /\ skipped_count' = 0
  /\ xml_products' = <<>>
  /\ root' = EmptyTree
  /\ csv_dict' = <<>>
  /\ xml_dict' = <<>>
  /\ key_idx' = 1
  /\ stats' = NoStats
  /\ log' = <<>>
  /\ printed' = FALSE
  /\ result' = -1
  /\ UNCHANGED <<csv_file, csv_exists, disk>>

(***************************************************************************)
(* Inputs: the CSV rows and the XML records the runs start from.           *)
(***************************************************************************)
SeqsUpTo(S, n) == UNION {[1..k -> S] : k \in 0..n}

\* a cell of a row whose column the header does not have
Absent == <<"Absent">>

CsvRow(plu, dept, price, name, ean, text_area, product_type, multiplier, barcode, print_format) ==
  LET cells == ("PLU Number" :> plu) @@ ("Department ID" :> dept)
                 @@ ("Retail Price (1st)" :> price) @@ ("Display Text" :> name)
                 @@ ("EAN Code" :> ean) @@ ("Text Area (1)" :> text_area)
                 @@ ("Product Type" :> product_type)
                 @@ ("Price Modifier Multiplier" :> multiplier)
                 @@ ("Barcode Format ID" :> barcode)
                 @@ ("Print Format ID" :> print_format)
  IN  [c \in {d \in DOMAIN cells : cells[d] # Absent} |-> cells[c]]

\* rows of the reconciliation runs: two rows of key (7,1) that differ in
\* every compared column, a row of key (8,1) whose text area has two lines,
\* a row with department 0
SyncRows ==
  { CsvRow(<<"7">>, <<"1">>, <<"4", ",", "5">>, <<" ", "A", " ">>, <<"5">>, <<"x">>, <<"1">>, <<"2">>, <<"3">>, <<"4">>),
    CsvRow(<<"7">>, <<"1">>, <<"3", ".", "0", "0">>, <<"B">>, <<"6">>, <<>>, <<"0">>, <<"1">>, <<"0">>, <<"0">>),
    CsvRow(<<"8">>, <<"1">>, <<"5", ".", "0", "0">>, <<"C">>, <<"2", ".", "5", "E", "+", "1">>, <<"x", "\r", "\n", "y">>, <<"0">>, <<"1">>, <<"0">>, <<"0">>),
    CsvRow(<<"7">>, <<"0">>, <<"4", ".", "5", "0">>, <<"A">>, <<"5">>, <<"x">>, <<"1">>, <<"2">>, <<"3">>, <<"4">>) }

ItemRecord(plu, dept, price, name, ean, stamps) ==
  ("PLU Number" :> plu) @@ ("Department ID" :> dept)
    @@ ("Retail Price (1st)" :> price) @@ ("Display Text" :> name)
    @@ ("Display Button Text" :> name) @@ ("EAN Code" :> ean)
    @@ ("Text Area (1)" :> <<>>) @@ ("Product Type" :> <<"0">>)
    @@ ("Price Modifier Multiplier" :> <<"1">>) @@ ("Barcode Format ID" :> <<"0">>)
    @@ ("Print Format ID" :> <<"0">>) @@ ("Cost Price" :> <<"9">>)
    @@ stamps

OldStamps == ("_TS" :> <<"T", "0">>) @@ ("_CF" :> <<"0">>)

NoStamps == [c \in {} |-> <<>>]

Without(record, cols) == [c \in DOMAIN record \ cols |-> record[c]]

\* ITEM records the target starts from.  Key (7,1): equal to the second
\* row; the same with a padded PLU, no stamps and no 'Display Button Text';
\* with the PLU spelled "007"; with the price written "3".  Key (9,1).
\* Department 0.  PLU 0.
ItemSamples ==
  { ItemRecord(<<"7">>, <<"1">>, <<"3", ".", "0", "0">>, <<"B">>, <<"6">>, OldStamps),
    Without(ItemRecord(<<" ", "7", " ">>, <<"1">>, <<"3", ".", "0", "0">>, <<"B">>, <<"6">>, NoStamps),
            {"Display Button Text"}),
    ItemRecord(<<"0", "0", "7">>, <<"1">>, <<"3", ".", "0", "0">>, <<"B">>, <<"6">>, OldStamps),
    ItemRecord(<<"7">>, <<"1">>, <<"3">>, <<"B">>, <<"6">>, OldStamps),
    ItemRecord(<<"9">>, <<"1">>, <<"3", ".", "0", "0">>, <<"D">>, <<"6">>, OldStamps),
    ItemRecord(<<"7">>, <<"0">>, <<"3", ".", "0", "0">>, <<"B">>, <<"6">>, OldStamps),
    ItemRecord(<<"0">>, <<"1">>, <<"3", ".", "0", "0">>, <<"B">>, <<"6">>, OldStamps) }

BandSample(band_id, plu, dept, price, stamps) ==
  ("Band ID" :> band_id) @@ ("Department ID" :> dept) @@ ("PLU Number" :> plu)
    @@ ("Retail Price (1st)" :> price) @@ ("Retail Price (Break 1)" :> <<"0">>)
    @@ stamps

\* 'ITEM in Band' records the target starts from: band "0" and band "1" of
\* key (7,1), band "0" of key (9,1)
BandSamples ==
  { BandSample(<<"0">>, <<"7">>, <<"1">>, <<"3", ".", "0", "0">>, OldStamps),
    BandSample(<<"1">>, <<"7">>, <<"1">>, <<"9", ".", "0", "0">>, NoStamps),
    BandSample(<<"0">>, <<"9">>, <<"1">>, <<"3", ".", "0", "0">>, OldStamps) }

Trees ==
  { Tree(hi, item, hb, band) :
      hi \in BOOLEAN, hb \in BOOLEAN,
      item \in SeqsUpTo(ItemSamples, MaxItemRecords),
      band \in SeqsUpTo(BandSamples, MaxBandRecords) }

\* a table that is absent holds no record
InputTrees == {t \in Trees : (~t.hasItem => t.item = <<>>)
                             /\ (~t.hasBand => t.band = <<>>)}

Disk(xml_exists, wellformed, xml) ==
  [xml_exists |-> xml_exists, wellformed |-> wellformed, xml |-> xml,
   backups |-> <<>>]

Init ==
  /\ run = 1
  /\ pc = "main"
  /\ csv_products = <<>>
  /\ skipped_count = 0
  /\ xml_products = <<>>
  /\ root = EmptyTree
  /\ csv_dict = <<>>
  /\ xml_dict = <<>>
  /\ key_idx = 1
  /\ stats = NoStats
  /\ log = <<>>
  /\ printed = FALSE
  /\ result = -1
  /\ \/ /\ csv_exists = TRUE
        /\ csv_file \in SeqsUpTo(SyncRows, MaxRows)
        /\ disk \in {Disk(TRUE, TRUE, t) : t \in InputTrees}
     \/ /\ csv_exists = FALSE
        /\ csv_file = <<>>
        /\ disk = Disk(TRUE, TRUE, Tree(TRUE, <<>>, TRUE, <<>>))
     \/ /\ csv_exists = TRUE
        /\ csv_file \in SeqsUpTo(SyncRows, 1)
        /\ disk \in {Disk(FALSE, FALSE, EmptyTree), Disk(TRUE, FALSE, EmptyTree)}

Next ==
  \/ CsvLoad
  \/ XmlLoad
  \/ SyncStart
  \/ UpdateExistingProduct
  \/ AddNewProduct
  \/ SyncEnd
  \/ Save
  \/ PrintSummary
  \/ Rerun

Spec == Init /\ [][Next]_vars

(***************************************************************************)
(* The CSV loader alone, on rows that vary the price, PLU, Product Type    *)
(* and multiplier cells (a cell may be None, or its column absent).        *)
(***************************************************************************)
PriceCells ==
  { <<"0", ".", "0", "0">>, <<"0">>, <<"9", "9", "9", "9", "9", "9", ".", "9", "9">>, <<"1", "0", "0", "0", "0", "0", "0", ".", "0", "0">>, <<"9", "9", "9", "9", "9", "9", ".", "9", "9", "5">>, <<"-", "0", ".", "0", "1">>,
    <<"-", "0", ".", "0", "0", "1">>, <<"1", "2", ",", "5", "0">>, <<"$", "4", ".", "5">>, <<"a", "b", "c">>, <<>>, NoneVal, Absent }

PluCells == { <<"7">>, <<"0">>, <<"a", "b", "c">>, <<"-", "7">>, <<" ", "0", "0", "7", " ">>, NoneVal }

TypeCells ==
  { <<"0">>, <<"1">>, <<"2">>, <<"4">>, <<"6">>, <<"9">>, <<"9", "9">>, <<"3">>, <<"5">>, <<"-", "1">>, <<"a", "b", "c">>,
    <<>>, Absent }

MultiplierCells ==
  { <<"1">>, <<"1", "0", "0">>, <<"0">>, <<"1", "0", "1">>, <<"5", "0">>, <<"a", "b", "c">>, <<"-", "5">>, Absent }

LoadRowOf(plu, price, product_type, multiplier) ==
  CsvRow(plu, <<"1">>, price, <<"A">>, <<"5">>, <<>>, product_type, multiplier,
         <<"0">>, <<"0">>)

\* one cell varied over all its texts in an otherwise valid row, and every
\* combination of a good and a bad text of each cell
VariedRows ==
  { LoadRowOf(<<"7">>, price, <<"0">>, <<"1">>) : price \in PriceCells }
    \cup { LoadRowOf(plu, <<"5", ".", "0", "0">>, <<"0">>, <<"1">>) : plu \in PluCells }
    \cup { LoadRowOf(<<"7">>, <<"5", ".", "0", "0">>, product_type, <<"1">>) :
             product_type \in TypeCells }
    \cup { LoadRowOf(<<"7">>, <<"5", ".", "0", "0">>, <<"0">>, multiplier) :
             multiplier \in MultiplierCells }
    \cup { LoadRowOf(plu, price, product_type, multiplier) :
             plu \in {<<"7">>, <<"0">>},
             price \in {<<"0", ".", "0", "0">>, <<"-", "0", ".", "0", "1">>, NoneVal},
             product_type \in {<<"9", "9">>, <<"3">>, <<"a", "b", "c">>},
             multiplier \in {<<"5", "0">>, <<"1", "0", "1">>} }

\* rows that follow the varied row: accepted, price out of range, Product
\* Type 3, and a short row whose 'Display Text' is None
FollowingRows ==
  { CsvRow(<<"8">>, <<"1">>, <<"9", "9", "9", "9", "9", "9", ".", "9", "9">>, <<"C">>, <<"5">>, <<>>, <<"0">>, <<"1", "0", "1">>, <<"0">>, <<"0">>),
    CsvRow(<<"8">>, <<"1">>, <<"1", "0", "0", "0", "0", "0", "0", ".", "0", "0">>, <<"C">>, <<"5">>, <<>>, <<"0">>, <<"1">>, <<"0">>, <<"0">>),
    CsvRow(<<"8">>, <<"1">>, <<"5", ".", "0", "0">>, <<"C">>, <<"5">>, <<>>, <<"3">>, <<"1">>, <<"0">>, <<"0">>),
    CsvRow(<<"8">>, <<"1">>, <<"5", ".", "0", "0">>, NoneVal, <<"5">>, NoneVal, <<"0">>, <<"1">>, <<"0">>, <<"0">>) }

InitLoad ==
  /\ run = 1
  /\ pc = "main"
  /\ csv_products = <<>>
  /\ skipped_count = 0
  /\ xml_products = <<>>
  /\ root = EmptyTree
  /\ csv_dict = <<>>
  /\ xml_dict = <<>>
  /\ key_idx = 1
  /\ stats = NoStats
  /\ log = <<>>
  /\ printed = FALSE
  /\ result = -1
  /\ csv_exists = TRUE
  /\ disk = Disk(TRUE, TRUE, Tree(TRUE, <<>>, TRUE, <<>>))
  /\ csv_file \in {<<>>} \cup
       { <<r>> \o t : r \in VariedRows,
                      t \in SeqsUpTo(FollowingRows, MaxLoadRows - 1) }

NextLoad == CsvLoad

SpecLoad == InitLoad /\ [][NextLoad]_vars

(***************************************************************************)
(* Properties of the CSV loader (specification SpecLoad).                  *)
(***************************************************************************)
Range(seq) == {seq[i] : i \in DOMAIN seq}

\* CSVLoader.load has returned
Loaded == pc = "xml_load"

SkipKinds == {"invalid_price", "invalid_plu", "invalid_type", "row_error"}

\* the log reports row i of the file (message row number i + 1) as skipped
RowSkipped(i) == \E l \in Range(log) : l[1] \in SkipKinds /\ l[2] = i + 1

RowAccepted(i) == ~RowSkipped(i)

\* a cell on which the loader calls .strip() is None
CellRaises(row) ==
  \E col \in {"Retail Price (1st)", "Display Text", "Text Area (1)"} :
    col \in DOMAIN row /\ row[col] = NoneVal

\* numeric value, in cents, of the row's normalized price
RowCents(row) ==
  PriceCents(normalize_price(Strip(RowGet(row, "Retail Price (1st)", <<>>))))

PriceOutOfRange(row) == RowCents(row) < 0 \/ RowCents(row) > 99999999

PluIsZero(row) == safe_int_conversion(RowGet(row, "PLU Number", <<>>), 0) = 0

TypeOutsideEnum(row) ==
  safe_int_conversion(RowGet(row, "Product Type", <<>>), 0)
    \notin {0, 1, 2, 4, 6, 9, 99}

\* the four reasons for which a row is to be skipped
MustSkip(row) ==
  \/ CellRaises(row)
  \/ PriceOutOfRange(row)
  \/ PluIsZero(row)
  \/ TypeOutsideEnum(row)

\* position, among the returned products, of the product of an accepted row
Rank(i) == Cardinality({k \in 1..i : ~MustSkip(csv_file[k])})

C8_PriceRangeBoundary ==
  Loaded =>
    \A i \in DOMAIN csv_file :
      RowGet(csv_file[i], "Retail Price (1st)", <<>>) # NoneVal =>
        LET c == RowCents(csv_file[i])
        IN  /\ (c < 0 \/ c > 99999999) =>
                 <<"invalid_price", i + 1>> \in Range(log)
            /\ (0 <= c /\ c <= 99999999) =>
                 /\ <<"invalid_price", i + 1>> \notin Range(log)
                 /\ (~CellRaises(csv_file[i]) /\ ~PluIsZero(csv_file[i])
                       /\ ~TypeOutsideEnum(csv_file[i])) => RowAccepted(i)

\* prices 999999.99 (accepted), 1000000.00 (rejected) and a negative price
\* (rejected) in one file
C8_Witness ==
  /\ Loaded
  /\ \E i, j, k \in DOMAIN csv_file :
       /\ RowGet(csv_file[i], "Retail Price (1st)", <<>>) # NoneVal
       /\ RowCents(csv_file[i]) < 0 /\ RowSkipped(i)
       /\ RowGet(csv_file[j], "Retail Price (1st)", <<>>) # NoneVal
       /\ RowCents(csv_file[j]) = 99999999 /\ RowAccepted(j)
       /\ RowGet(csv_file[k], "Retail Price (1st)", <<>>) # NoneVal
       /\ RowCents(csv_file[k]) = 100000000 /\ RowSkipped(k)

\* the 'Product Type' cell is numeric text: it parses as an integer
TypeCellParses(row) ==
  /\ "Product Type" \in DOMAIN row
  /\ row["Product Type"] # NoneVal
  /\ IntSyntax(Strip(row["Product Type"]))

\* the 'Product Type' cell holds text that is not a number
TypeCellNonNumeric(row) ==
  /\ "Product Type" \in DOMAIN row
  /\ row["Product Type"] # NoneVal
  /\ Strip(row["Product Type"]) # <<>>
  /\ ~IntSyntax(Strip(row["Product Type"]))

\* C9: a row is accepted only if its 'Product Type' parses to one of
\* {0,1,2,4,6,9,99}; rows whose 'Product Type' is 3, 5, -1 or non-numeric
\* text are rejected.
C9_ProductTypeBoundary ==
  Loaded =>
    \A i \in DOMAIN csv_file :
      /\ (TypeCellParses(csv_file[i])
            /\ IntValue(Strip(csv_file[i]["Product Type"]))
                 \notin {0, 1, 2, 4, 6, 9, 99}) => RowSkipped(i)
      /\ TypeCellNonNumeric(csv_file[i]) => RowSkipped(i)

\* the multiplier the claim expects for a row
ExpectedMultiplier(row) ==
  LET cell == RowGet(row, "Price Modifier Multiplier", <<"1">>)
  IN  IF cell # NoneVal /\ IntSyntax(Strip(cell))
           /\ 1 <= IntValue(Strip(cell)) /\ IntValue(Strip(cell)) <= 100
        THEN IntValue(Strip(cell)) ELSE 1

\* C10: a row that passes the price, PLU and Product Type checks is
\* accepted whatever its multiplier, and its product's multiplier is the
\* parsed value when that lies in [1,100] and 1 otherwise.
C10_MultiplierClamp ==
  Loaded =>
    \A i \in DOMAIN csv_file :
      ~MustSkip(csv_file[i]) =>
        /\ RowAccepted(i)
        /\ Rank(i) \in DOMAIN csv_products
        /\ csv_products[Rank(i)]["Price Modifier Multiplier"]
             = ExpectedMultiplier(csv_file[i])

\* accepted rows with multiplier cells "101" (clamped to 1) and "100" (kept)
C10_Witness ==
  /\ Loaded
  /\ \E i, j \in DOMAIN csv_file :
       /\ RowAccepted(i)
       /\ RowGet(csv_file[i], "Price Modifier Multiplier", <<>>) = <<"1", "0", "1">>
       /\ csv_products[Rank(i)]["Price Modifier Multiplier"] = 1
       /\ <<"invalid_multiplier", i + 1>> \in Range(log)
       /\ RowAccepted(j)
       /\ RowGet(csv_file[j], "Price Modifier Multiplier", <<>>) = <<"1", "0", "0">>
       /\ csv_products[Rank(j)]["Price Modifier Multiplier"] = 100

(***************************************************************************)
(* Properties of the reconciliation (specification Spec).  While pc is     *)
(* "sync", "sync_loop" or "save" the tree the run started from is the one  *)
(* on disk, disk.xml, and root is the tree being mutated.                  *)
(***************************************************************************)
BeforeTree == disk.xml

InSync == pc \in {"sync_loop", "save"}

AfterSync == pc = "save"

ValidKey(k) == k[1] # 0 /\ k[2] # 0

\* keys of the products returned by the two loaders, both components non-zero
SourceKeys == {k \in {Key(p) : p \in Range(csv_products)} : ValidKey(k)}

TargetKeys == {k \in {Key(p) : p \in Range(xml_products)} : ValidKey(k)}

AddKeys == SourceKeys \ TargetKeys

CommonKeys == SourceKeys \cap TargetKeys

DeleteKeys == TargetKeys \ SourceKeys

\* the last source row of a key
LastRowOf(k) ==
  CHOOSE i \in DOMAIN csv_products :
    /\ Key(csv_products[i]) = k
    /\ \A j \in DOMAIN csv_products : j > i => Key(csv_products[j]) # k

SourceProduct(k) == csv_products[LastRowOf(k)]

\* the key the target loader derives from a record
RecordKey(r) ==
  <<safe_int_conversion(FieldGet(r, "PLU Number", <<>>), 0),
    safe_int_conversion(FieldGet(r, "Department ID", <<>>), 0)>>

\* the record carries the PLU and the department of the key
Carries(r, k) ==
  /\ "PLU Number" \in DOMAIN r /\ r["PLU Number"] = IntToText(k[1])
  /\ "Department ID" \in DOMAIN r /\ r["Department ID"] = IntToText(k[2])

HasPrice(r, price) ==
  "Retail Price (1st)" \in DOMAIN r /\ r["Retail Price (1st)"] = price

Stamped(r) ==
  /\ "_TS" \in DOMAIN r /\ r["_TS"] = current_ts
  /\ "_CF" \in DOMAIN r /\ r["_CF"] = <<"1">>

\* positions of the records appended by this run
NewItems == {i \in DOMAIN root.item : i > Len(BeforeTree.item)}

NewBands == {j \in DOMAIN root.band : j > Len(BeforeTree.band)}

NewItemsOf(k) ==
  {i \in NewItems : /\ Carries(root.item[i], k)
                    /\ HasPrice(root.item[i], SourceProduct(k)["Price"])
                    /\ Stamped(root.item[i])}

NewBandsOf(k) ==
  {j \in NewBands : /\ Carries(root.band[j], k)
                    /\ HasPrice(root.band[j], SourceProduct(k)["Price"])
                    /\ "Band ID" \in DOMAIN root.band[j]
                    /\ root.band[j]["Band ID"] = <<"0">>
                    /\ Stamped(root.band[j])}

\* positions of the log lines of one kind about one key
LinesOf(kind, k) == {n \in DOMAIN log : log[n] = <<kind, k[1], k[2]>>}

\* C1 as stated: after sync every key to add has exactly one new ITEM
\* record and exactly one new 'ITEM in Band' record of band "0", both with
\* the key, the source price, _TS and _CF = "1", and is counted once in
\* 'added'.
C1_AddAppendsBoth ==
  AfterSync =>
    /\ \A k \in AddKeys :
         /\ Cardinality(NewItemsOf(k)) = 1
         /\ Cardinality(NewBandsOf(k)) = 1
         /\ Cardinality(LinesOf("added", k)) = 1
    /\ stats.added = Cardinality(AddKeys)

\* C1 amended: when the target has table ITEM, every key to add has exactly
\* one new ITEM record with the key, the source price, _TS and _CF = "1",
\* and is counted once in 'added'; when the target has table 'ITEM in Band'
\* as well, it has exactly one new band record of band "0" with the same
\* key, price and stamps, and when that table is missing no band record is
\* made.  The new records are the only ones appended.
C1_AddAppendsWhereTableExists ==
  (AfterSync /\ BeforeTree.hasItem) =>
    /\ \A k \in AddKeys :
         /\ Cardinality(NewItemsOf(k)) = 1
         /\ Cardinality({i \in NewItems : Carries(root.item[i], k)}) = 1
         /\ Cardinality(LinesOf("added", k)) = 1
         /\ BeforeTree.hasBand =>
              /\ Cardinality(NewBandsOf(k)) = 1
              /\ Cardinality({j \in NewBands : Carries(root.band[j], k)}) = 1
    /\ ~BeforeTree.hasBand => root.band = <<>>
    /\ stats.added = Cardinality(AddKeys)
    /\ Cardinality(NewItems) = Cardinality(AddKeys)
    /\ BeforeTree.hasBand => Cardinality(NewBands) = Cardinality(AddKeys)

\* two keys were added to a target that has both tables and holds records
C1_Witness ==
  /\ AfterSync
  /\ BeforeTree.hasItem /\ BeforeTree.hasBand
  /\ BeforeTree.item # <<>> /\ BeforeTree.band # <<>>
  /\ Cardinality(AddKeys) = 2
  /\ stats.added = 2
  /\ \A k \in AddKeys : NewItemsOf(k) # {} /\ NewBandsOf(k) # {}

\* the ITEM records from which the target loader derived a key
ItemsOfKey(k) == {i \in DOMAIN BeforeTree.item : RecordKey(BeforeTree.item[i]) = k}

BandsOfKey(tree, k) == {j \in DOMAIN tree.band : RecordKey(tree.band[j]) = k}

\* the key has one ITEM record in the target, and its price, normalized as
\* the loader does, is not the source price
PriceChange(k) ==
  /\ Cardinality(ItemsOfKey(k)) = 1
  /\ \A i \in ItemsOfKey(k) :
       normalize_price(FieldGet(BeforeTree.item[i], "Retail Price (1st)", <<>>))
         # SourceProduct(k)["Price"]

\* what C2 promises for a key whose price changed
PriceWritten(k) ==
  /\ \A i \in ItemsOfKey(k) :
       /\ HasPrice(root.item[i], SourceProduct(k)["Price"])
       /\ Stamped(root.item[i])
  /\ BandsOfKey(BeforeTree, k) # {} =>
       \E j \in BandsOfKey(root, k) :
         HasPrice(root.band[j], SourceProduct(k)["Price"])
  /\ Cardinality(LinesOf("updated", k)) = 1

\* C2: when a key is in both maps and the source price differs from the
\* price of the target ITEM record, then after sync that record holds the
\* source price, _CF = "1" and a fresh _TS, a band record of the key holds
\* the source price too, and the key is counted once in 'updated'.
C2_UpdateWritesPrice ==
  AfterSync => \A k \in CommonKeys : PriceChange(k) => PriceWritten(k)

\* the PLU and department texts of the record are canonical integers
Canonical(r) ==
  /\ "PLU Number" \in DOMAIN r /\ "Department ID" \in DOMAIN r
  /\ Strip(r["PLU Number"]) = IntToText(RecordKey(r)[1])
  /\ Strip(r["Department ID"]) = IntToText(RecordKey(r)[2])

\* C2 holds for the keys whose ITEM record spells its PLU and department
\* canonically: the record match of the mutator is what fails the others
C2_HoldsForCanonicalRecords ==
  AfterSync =>
    \A k \in CommonKeys :
      (PriceChange(k) /\ \A i \in ItemsOfKey(k) : Canonical(BeforeTree.item[i]))
        => PriceWritten(k)

\* C3: every valid target key absent from the source is counted and logged
\* once as a delete-candidate, its ITEM record and its band records stay in
\* place with all fields unchanged, and no record of either table is
\* removed, neither from the tree nor from the saved file.
C3_DeletionReportOnly ==
  /\ InSync =>
       /\ stats.deleted = Cardinality(DeleteKeys)
       /\ \A k \in DeleteKeys : Cardinality(LinesOf("should_be_deleted", k)) = 1
       /\ \A i \in DOMAIN BeforeTree.item :
            /\ i \in DOMAIN root.item
            /\ RecordKey(root.item[i]) = RecordKey(BeforeTree.item[i])
            /\ RecordKey(BeforeTree.item[i]) \in DeleteKeys =>
                 root.item[i] = BeforeTree.item[i]
       /\ \A j \in DOMAIN BeforeTree.band :
            /\ j \in DOMAIN root.band
            /\ RecordKey(root.band[j]) = RecordKey(BeforeTree.band[j])
            /\ RecordKey(BeforeTree.band[j]) \in DeleteKeys =>
                 root.band[j] = BeforeTree.band[j]
  /\ (pc \in {"summary", "done"} /\ disk.backups # <<>>) =>
       LET old == disk.backups[Len(disk.backups)]
       IN  /\ Len(disk.xml.item) >= Len(old.item)
           /\ Len(disk.xml.band) >= Len(old.band)

\* a delete-candidate with an ITEM record and a band record, in a run that
\* also changed the tree
C3_Witness ==
  /\ AfterSync
  /\ \E k \in DeleteKeys : ItemsOfKey(k) # {} /\ BandsOfKey(BeforeTree, k) # {}
  /\ stats.deleted = 1
  /\ stats.added + stats.updated > 0

\* the record is the old one, except possibly for a _TS it did not have
SameButTS(new, old) ==
  /\ DOMAIN old \subseteq DOMAIN new
  /\ DOMAIN new \subseteq DOMAIN old \cup {"_TS"}
  /\ \A c \in DOMAIN old : new[c] = old[c]

\* C4: a second run with the same source on the file the first run saved
\* adds nothing, updates nothing and changes no field, except possibly for
\* creating a missing _TS.
C4_SecondRunIdempotent ==
  (run = 2 /\ InSync) =>
    /\ stats.added = 0
    /\ stats.updated = 0
    /\ root.hasItem = BeforeTree.hasItem /\ root.hasBand = BeforeTree.hasBand
    /\ Len(root.item) = Len(BeforeTree.item)
    /\ \A i \in DOMAIN root.item : SameButTS(root.item[i], BeforeTree.item[i])
    /\ root.band = BeforeTree.band

\* no text of a source product holds a carriage return
NoCarriageReturn ==
  \A p \in Range(csv_products) :
    \A c \in {"Name", "Text Area (1)"} : \A n \in DOMAIN p[c] : p[c][n] # "\r"

\* C4 holds for the sources without a carriage return in a text: the parse
\* of the saved file, which reads it back as a line feed, is what fails
\* the others
C4_HoldsWithoutCarriageReturn ==
  (run = 2 /\ InSync /\ NoCarriageReturn) =>
    /\ stats.added = 0
    /\ stats.updated = 0
    /\ \A i \in DOMAIN root.item :
         i \in DOMAIN BeforeTree.item /\ SameButTS(root.item[i], BeforeTree.item[i])
    /\ root.band = BeforeTree.band

\* the product without the stamp the add path rewrites
Compared(p) == [c \in DOMAIN p \ {"_TS"} |-> p[c]]

\* every mapped column the record has holds the text of the product
HoldsAll(r, p) ==
  \A c \in MappedColumns \cap DOMAIN r : r[c] = StrOf(p, CsvKeyOf(c))

\* C5: source rows of one key collapse to one entry of the source map, the
\* one of the later row; a record this run added or changed for the key
\* holds the later row's value in every compared column; and the key is
\* counted at most once in added/updated.
C5_LastRowWins ==
  InSync =>
    \A k \in SourceKeys :
      /\ Cardinality({s \in DOMAIN csv_dict : Key(csv_dict[s]) = k}) = 1
      /\ \A s \in DOMAIN csv_dict :
           Key(csv_dict[s]) = k => Compared(csv_dict[s]) = Compared(SourceProduct(k))
      /\ \A i \in DOMAIN root.item :
           (/\ RecordKey(root.item[i]) = k
            /\ (i \in NewItems \/ root.item[i] # BeforeTree.item[i]))
             => HoldsAll(root.item[i], SourceProduct(k))
      /\ Cardinality(LinesOf("added", k)) + Cardinality(LinesOf("updated", k)) <= 1

\* two rows of one key that differ in every compared attribute, and a
\* record written for that key
C5_Witness ==
  /\ AfterSync
  /\ Len(csv_products) = 2
  /\ Key(csv_products[1]) = Key(csv_products[2])
  /\ \A c \in DOMAIN csv_products[1] \ {"PLU", "Department ID", "_TS"} :
       csv_products[1][c] # csv_products[2][c]
  /\ \E i \in DOMAIN root.item :
       /\ i \in DOMAIN BeforeTree.item
       /\ root.item[i] # BeforeTree.item[i]
       /\ HoldsAll(root.item[i], csv_products[2])
       /\ ~HoldsAll(BeforeTree.item[i], csv_products[2])

\* C6: a product whose PLU or department is 0, in the source or in the
\* target, is never added, updated or reported: no outcome line and no new
\* record carries such a key, the counters count valid keys only, and a
\* target record of such a key is left as it was.
C6_InvalidKeysExcluded ==
  InSync =>
    /\ \A l \in Range(log) :
         l[1] \in {"added", "updated", "should_be_deleted", "error",
                   "no_band_record"} => ValidKey(<<l[2], l[3]>>)
    /\ \A i \in NewItems : ValidKey(RecordKey(root.item[i]))
    /\ \A j \in NewBands : ValidKey(RecordKey(root.band[j]))
    /\ \A i \in DOMAIN BeforeTree.item :
         ~ValidKey(RecordKey(BeforeTree.item[i])) =>
           i \in DOMAIN root.item /\ root.item[i] = BeforeTree.item[i]
    /\ \A j \in DOMAIN BeforeTree.band :
         ~ValidKey(RecordKey(BeforeTree.band[j])) =>
           j \in DOMAIN root.band /\ root.band[j] = BeforeTree.band[j]
    /\ \A s \in DOMAIN csv_dict : ValidKey(Key(csv_dict[s]))
    /\ \A s \in DOMAIN xml_dict : ValidKey(Key(xml_dict[s]))
    /\ stats.added + stats.updated + stats.errors <= Cardinality(SourceKeys)
    /\ stats.deleted <= Cardinality(TargetKeys)

\* a source product with department 0, target records with PLU 0 and with
\* department 0, in a run that added or updated a valid key
C6_Witness ==
  /\ AfterSync
  /\ \E p \in Range(csv_products) : p["Department ID"] = 0
  /\ \E i \in DOMAIN BeforeTree.item : RecordKey(BeforeTree.item[i])[1] = 0
  /\ \E i \in DOMAIN BeforeTree.item : RecordKey(BeforeTree.item[i])[2] = 0
  /\ stats.added + stats.updated > 0

(***************************************************************************)
(* Properties of the update path.                                          *)
(***************************************************************************)
\* the trimmed PLU and department texts of the record equal the key
TextMatches(r, k) ==
  /\ "PLU Number" \in DOMAIN r /\ Strip(r["PLU Number"]) = IntToText(k[1])
  /\ "Department ID" \in DOMAIN r /\ Strip(r["Department ID"]) = IntToText(k[2])

ItemMatches(k) == {i \in DOMAIN BeforeTree.item : TextMatches(BeforeTree.item[i], k)}

BandMatches(k) == {j \in DOMAIN BeforeTree.band : TextMatches(BeforeTree.band[j], k)}

\* least element of a non-empty set of positions
Least(S) == CHOOSE i \in S : \A j \in S : i <= j

\* the source value of a mapped column, as the text the code compares
SourceText(k, col) ==
  LET p == SourceProduct(k)
  IN  CASE col \in {"Display Text", "Display Button Text"} -> p["Name"]
        [] col = "EAN Code" -> IntToText(p["EAN"])
        [] col = "Retail Price (1st)" -> p["Price"]
        [] col = "Text Area (1)" -> p["Text Area (1)"]
        [] OTHER -> IntToText(p[col])

CompareColumns ==
  {"Display Text", "EAN Code", "Retail Price (1st)", "Text Area (1)",
   "Product Type", "Price Modifier Multiplier", "Barcode Format ID",
   "Print Format ID", "Display Button Text"}

\* the mapped columns of the record whose text is not the source value
Differing(r, k) == {c \in CompareColumns \cap DOMAIN r : r[c] # SourceText(k, c)}

\* C11: when a key is in both maps and no mapped column of the matched ITEM
\* record differs from the source value, the record keeps every field text,
\* gets no _CF and no new _CF value, gets a _TS only if it had none, no band
\* record of the key is touched, and 'updated' is not incremented.
C11_UnchangedRecordUntouched ==
  AfterSync =>
    \A k \in CommonKeys :
      (ItemMatches(k) # {} /\ Differing(BeforeTree.item[Least(ItemMatches(k))], k) = {}) =>
        LET i == Least(ItemMatches(k))
        IN  /\ SameButTS(root.item[i], BeforeTree.item[i])
            /\ "_TS" \in DOMAIN root.item[i]
            /\ "_TS" \notin DOMAIN BeforeTree.item[i] => root.item[i]["_TS"] = current_ts
            /\ \A j \in BandMatches(k) : root.band[j] = BeforeTree.band[j]
            /\ LinesOf("updated", k) = {}
            /\ stats.updated = Cardinality({q \in CommonKeys : LinesOf("updated", q) # {}})

\* a matched record equal to the source in every mapped column, without
\* _TS and _CF before the run, with a band record of its key
C11_Witness ==
  /\ AfterSync
  /\ \E k \in CommonKeys :
       /\ ItemMatches(k) # {}
       /\ Differing(BeforeTree.item[Least(ItemMatches(k))], k) = {}
       /\ "_TS" \notin DOMAIN BeforeTree.item[Least(ItemMatches(k))]
       /\ "_CF" \notin DOMAIN root.item[Least(ItemMatches(k))]
       /\ root.item[Least(ItemMatches(k))]["_TS"] = current_ts
       /\ BandMatches(k) # {}

\* C12: when the document has table ITEM and no table 'ITEM in Band', every
\* key to add still gets its ITEM record and is counted once in 'added',
\* no 'ITEM in Band' table or record is created, and 'errors' is not
\* incremented.
C12_AddWithoutBandTable ==
  (AfterSync /\ BeforeTree.hasItem /\ ~BeforeTree.hasBand) =>
    /\ \A k \in AddKeys :
         /\ Cardinality(NewItemsOf(k)) = 1
         /\ Cardinality(LinesOf("added", k)) = 1
         /\ LinesOf("error", k) = {}
    /\ stats.added = Cardinality(AddKeys)
    /\ stats.errors = 0
    /\ ~root.hasBand
    /\ root.band = <<>>

\* two keys added to a document that holds ITEM records and has no band table
C12_Witness ==
  /\ AfterSync
  /\ BeforeTree.hasItem /\ ~BeforeTree.hasBand
  /\ BeforeTree.item # <<>>
  /\ stats.added = 2
  /\ Len(root.item) = Len(BeforeTree.item) + 2
  /\ ~root.hasBand

\* the update of the key changes the price of its first matching ITEM record
PriceUpdate(k) ==
  /\ ItemMatches(k) # {}
  /\ "Retail Price (1st)" \in Differing(BeforeTree.item[Least(ItemMatches(k))], k)

\* C13: when an update changes the price and no 'ITEM in Band' record
\* matches the key, the ITEM record holds the source price and the stamps,
\* the key is counted once in 'updated' and not in 'errors'; and the band
\* table grows only by the records of added keys, so an update makes none.
C13_UpdateFabricatesNoBand ==
  AfterSync =>
    /\ \A k \in CommonKeys :
         (PriceUpdate(k) /\ BandMatches(k) = {}) =>
           LET i == Least(ItemMatches(k))
           IN  /\ HasPrice(root.item[i], SourceProduct(k)["Price"])
               /\ Stamped(root.item[i])
               /\ Cardinality(LinesOf("updated", k)) = 1
               /\ LinesOf("error", k) = {}
               /\ \A j \in DOMAIN root.band : ~TextMatches(root.band[j], k)
    /\ Len(root.band)
         = Len(BeforeTree.band) + (IF BeforeTree.hasBand THEN stats.added ELSE 0)
    /\ \A j \in NewBands : RecordKey(root.band[j]) \in AddKeys

\* a price update of a key without band record, in a band table that holds
\* records of another key
C13_Witness ==
  /\ AfterSync
  /\ BeforeTree.hasBand /\ BeforeTree.band # <<>>
  /\ \E k \in CommonKeys :
       /\ PriceUpdate(k) /\ BandMatches(k) = {}
       /\ LinesOf("no_band_record", k) # {}
       /\ LinesOf("updated", k) # {}
  /\ root.band = BeforeTree.band

\* C14: of several ITEM records, or several 'ITEM in Band' records, whose
\* trimmed PLU and department texts equal a key, an update touches at most
\* the first in document order and leaves every later one with all fields
\* unchanged; the first ITEM record takes the source values where it
\* differed; a key has at most one 'updated' line per run.
C14_FirstMatchWins ==
  AfterSync =>
    \A k \in SourceKeys :
      /\ \A i \in ItemMatches(k) :
           i # Least(ItemMatches(k)) => root.item[i] = BeforeTree.item[i]
      /\ \A j \in BandMatches(k) :
           j # Least(BandMatches(k)) => root.band[j] = BeforeTree.band[j]
      /\ (k \in CommonKeys /\ ItemMatches(k) # {}) =>
           LET i == Least(ItemMatches(k))
           IN  /\ Differing(root.item[i], k) = {}
               /\ Differing(BeforeTree.item[i], k) # {} =>
                    Cardinality(LinesOf("updated", k)) = 1
               /\ (PriceUpdate(k) /\ BandMatches(k) # {}) =>
                    /\ HasPrice(root.band[Least(BandMatches(k))], SourceProduct(k)["Price"])
                    /\ Stamped(root.band[Least(BandMatches(k))])
      /\ Cardinality(LinesOf("updated", k)) <= 1

\* two ITEM records and two band records of one key, the first of each
\* rewritten by a price update and the second, which differs from the source
\* as well, left as it was
C14_Witness ==
  /\ AfterSync
  /\ \E k \in CommonKeys :
       /\ Cardinality(ItemMatches(k)) = 2
       /\ Cardinality(BandMatches(k)) = 2
       /\ PriceUpdate(k)
       /\ \A i \in ItemMatches(k) : Differing(BeforeTree.item[i], k) # {}
       /\ \A j \in BandMatches(k) :
            ~HasPrice(BeforeTree.band[j], SourceProduct(k)["Price"])
       /\ root.item[Least(ItemMatches(k))] # BeforeTree.item[Least(ItemMatches(k))]
       /\ root.band[Least(BandMatches(k))] # BeforeTree.band[Least(BandMatches(k))]

(***************************************************************************)
(* Properties of the run as a whole.                                       *)
(***************************************************************************)
\* the document this run loaded has table ITEM (root keeps the tables it
\* was loaded with until the next run starts)
LoadedWithItemTable == root.hasItem

\* C15: a run whose target document has no table ITEM is aborted with a
\* non-zero outcome before anything is persisted: it never reaches the save
\* step, never saves and never ends with outcome 0.
C15_MissingItemTableFatal ==
  /\ pc \in {"save", "summary", "done"} => LoadedWithItemTable
  /\ (pc \in {"sync_loop", "failed"} /\ key_idx > 1 /\ ~LoadedWithItemTable) =>
       result = 1

\* order of the positions of main within one run
StageRank ==
  ("main" :> 0) @@ ("xml_load" :> 1) @@ ("sync" :> 2) @@ ("sync_loop" :> 3)
    @@ ("save" :> 4) @@ ("summary" :> 5) @@ ("done" :> 6) @@ ("failed" :> 6)

\* C16: a run whose CSV file is missing, or whose XML file is missing or
\* unparsable, ends at once with outcome 1 and the files as they were, and
\* a failed run goes nowhere; the files change only in the step taken from
\* the save position, which is entered only from the end of the sync loop,
\* and within a run the positions only advance, so a run saves at most once
\* and only after both loads and the sync.
C16_LoadFailurePersistsNothing ==
  [][ /\ (pc = "main" /\ ~csv_exists) =>
           (pc' = "failed" /\ result' = 1 /\ disk' = disk)
      /\ (pc = "xml_load" /\ (~disk.xml_exists \/ ~disk.wellformed)) =>
           (pc' = "failed" /\ result' = 1 /\ disk' = disk)
      /\ pc = "failed" => (pc' = "failed" /\ disk' = disk)
      /\ disk' # disk =>
           (pc = "save" /\ csv_exists /\ key_idx > Len(csv_dict)
              /\ Len(disk'.backups) <= Len(disk.backups) + 1)
      /\ pc' = "save" => pc = "sync_loop"
      /\ run' = run =>
           (StageRank[pc'] > StageRank[pc] \/ (pc = "sync_loop" /\ pc' = "sync_loop"))
      /\ run' # run =>
           (run' = run + 1 /\ pc = "done" /\ pc' = "main" /\ disk' = disk)
    ]_vars

\* a run that loaded its CSV rows and then failed on a missing or
\* unparsable XML file, with nothing written
C16_Witness ==
  /\ pc = "failed"
  /\ result = 1
  /\ csv_products # <<>>
  /\ ~disk.xml_exists \/ ~disk.wellformed
  /\ disk.backups = <<>>
  /\ root = EmptyTree
  /\ stats = NoStats

\* C17: the step taken from the save position either succeeds, and then
\* the destination holds the mutated tree and the newest backup holds the
\* file the run started from, or fails with outcome 1, and then the file
\* the run started from is still at the destination or is the newest
\* backup; earlier backups are kept in both cases.
C17_BackupPrecedesWrite ==
  [][ pc = "save" =>
        /\ SubSeq(disk'.backups, 1, Len(disk.backups)) = disk.backups
        /\ \/ /\ pc' = "summary"
              /\ result' = result
              /\ disk'.xml_exists /\ disk'.wellformed
              /\ disk'.xml = ParsedTree(root)
              /\ disk.xml_exists => disk'.backups = Append(disk.backups, disk.xml)
           \/ /\ pc' = "failed"
              /\ result' = 1
              /\ disk.xml_exists =>
                   \/ disk' = disk
                   \/ disk'.backups = Append(disk.backups, disk.xml)
    ]_vars

\* a run that changed the tree and whose write failed after the rename:
\* the file it started from is the newest backup
C17_Witness ==
  /\ pc = "failed"
  /\ result = 1
  /\ ~disk.wellformed
  /\ disk.backups # <<>>
  /\ disk.backups[Len(disk.backups)] # ParsedTree(root)
  /\ stats.added + stats.updated > 0

\* C18: every run that entered sync has printed its summary when it ends.
C18_SummaryAlwaysPrinted ==
  [][ (pc \in {"sync", "sync_loop", "save", "summary"} /\ pc' \in {"done", "failed"}) =>
        printed' ]_vars

\* the Product XMLManager.load extracts from the record, without its stamp
LoadedProduct(r) == Compared(ProductOfRecord(r, current_ts))

\* C19: when a key is in both maps and the Product loaded from the matched
\* ITEM record equals the source Product on every attribute but the stamp
\* (and the record's button text is its display text), the record is not
\* rewritten, gets no _CF, and no 'updated' line is logged for the key.
C19_ComparisonNormalized ==
  AfterSync =>
    \A k \in CommonKeys :
      ItemMatches(k) # {} =>
        LET i == Least(ItemMatches(k))
            r == BeforeTree.item[i]
        IN  ( /\ LoadedProduct(r) = Compared(SourceProduct(k))
              /\ "Display Button Text" \in DOMAIN r =>
                   ("Display Text" \in DOMAIN r
                      /\ r["Display Button Text"] = r["Display Text"]) ) =>
              /\ SameButTS(root.item[i], r)
              /\ LinesOf("updated", k) = {}

\* C20: every product returned by the load has a positive PLU, a
\* non-negative EAN, Barcode Format ID and Print Format ID, a Product Type
\* of the enum, a multiplier from 1 to 100 and a price from 0.00 to
\* 999999.99.
C20_AcceptedProductInvariant ==
  Loaded =>
    \A n \in DOMAIN csv_products :
      LET p == csv_products[n]
      IN  /\ p["PLU"] > 0
          /\ p["EAN"] >= 0
          /\ p["Barcode Format ID"] >= 0
          /\ p["Print Format ID"] >= 0
          /\ p["Product Type"] \in ProductTypes
          /\ p["Price Modifier Multiplier"] \in 1..100
          /\ PriceCents(p["Price"]) >= MIN_PRICE
          /\ PriceCents(p["Price"]) <= MAX_PRICE

\* ------------------------------------------------------------------
\* Properties of the band table, the key match and the counters

\* the record's Band ID is "0"
IsBandZero(r) == "Band ID" \in DOMAIN r /\ Strip(r["Band ID"]) = <<"0">>

\* C21: in table 'ITEM in Band', every record sync creates has Band ID "0",
\* and every record that was there before and has another Band ID is left
\* as it was, wherever it stands among the records of its key.
C21_OnlyBandZeroMaintained ==
  AfterSync =>
    /\ \A j \in DOMAIN root.band :
         j > Len(BeforeTree.band) => IsBandZero(root.band[j])
    /\ \A j \in DOMAIN BeforeTree.band :
         ~IsBandZero(BeforeTree.band[j]) =>
           (j \in DOMAIN root.band /\ root.band[j] = BeforeTree.band[j])

\* C22: for every key in both maps for which no error was counted, after
\* sync the tree holds an ITEM record from which the target loader derives
\* that key and whose mapped columns all hold the source values, however
\* the record spells its PLU and its department.
C22_LoaderKeyAndMatchAgree ==
  AfterSync =>
    \A k \in CommonKeys :
      LinesOf("error", k) = {} =>
        \E i \in DOMAIN root.item :
          /\ RecordKey(root.item[i]) = k
          /\ HoldsAll(root.item[i], SourceProduct(k))

\* the record is the earlier one in every column sync never writes
SameOutside(new, old, written) ==
  /\ DOMAIN old \subseteq DOMAIN new
  /\ DOMAIN new \subseteq DOMAIN old \cup {"_TS", "_CF"}
  /\ \A c \in DOMAIN old \ written : new[c] = old[c]

ItemWritten == MappedColumns \cup {"_TS", "_CF"}

BandWritten == {"Retail Price (1st)", "_TS", "_CF"}

\* C23: at every point of the sync loop and at its end, each record the run
\* started from is at its position in its table (same key columns, same
\* text in every column sync does not write), so no record is lost or
\* moved; table ITEM holds the initial records plus one per product added,
\* table 'ITEM in Band' too when it exists, and the added records stand
\* after all the initial ones, in the order of the 'added' lines.
C23_RecordCount ==
  InSync =>
    /\ \A i \in DOMAIN BeforeTree.item :
         /\ i \in DOMAIN root.item
         /\ SameOutside(root.item[i], BeforeTree.item[i], ItemWritten)
    /\ \A j \in DOMAIN BeforeTree.band :
         /\ j \in DOMAIN root.band
         /\ SameOutside(root.band[j], BeforeTree.band[j], BandWritten)
    /\ Len(root.item) = Len(BeforeTree.item) + stats.added
    /\ Len(root.band) = Len(BeforeTree.band) + (IF root.hasBand THEN stats.added ELSE 0)
    /\ LET added == SelectSeq(log, LAMBDA l : l[1] = "added")
       IN  /\ Len(added) = stats.added
           /\ \A n \in DOMAIN added :
                /\ Carries(root.item[Len(BeforeTree.item) + n], <<added[n][2], added[n][3]>>)
                /\ root.hasBand =>
                     Carries(root.band[Len(BeforeTree.band) + n], <<added[n][2], added[n][3]>>)

\* a finished sync that updated a record of each table and added a product
\* to a target that had records in both tables
C23_Witness ==
  /\ AfterSync
  /\ stats.added >= 1
  /\ stats.updated >= 1
  /\ BeforeTree.item # <<>>
  /\ BeforeTree.band # <<>>
  /\ Len(root.band) > Len(BeforeTree.band)
  /\ \E j \in DOMAIN BeforeTree.band : root.band[j] # BeforeTree.band[j]
  /\ \E i \in DOMAIN BeforeTree.item : root.item[i] # BeforeTree.item[i]

\* the keys the loop of _process_updates_and_additions has dealt with
ProcessedKeys == {Key(csv_dict[s]) : s \in 1..(key_idx - 1)}

\* number of log lines of one kind
CountLines(kind) == Cardinality({n \in DOMAIN log : log[n][1] = kind})

\* C24: the loop deals with each valid source key once, in turn, and to the
\* end whatever error a key raised; a key is counted in at most one of
\* 'added', 'updated' and 'errors', and only once dealt with, so their sum
\* never exceeds the number of valid source keys; 'added' counts only keys
\* absent from the target map; 'deleted' is the number of valid target
\* keys absent from the source map; a key that raises counts one error;
\* and sync returns the four counters.
C24_StatisticsAccounting ==
  InSync =>
    /\ DOMAIN stats = {"added", "updated", "deleted", "errors"}
    /\ Keys(csv_dict) = SourceKeys
    /\ Len(csv_dict) = Cardinality(SourceKeys)
    /\ key_idx - 1 = Cardinality(ProcessedKeys)
    /\ AfterSync => ProcessedKeys = SourceKeys
    /\ stats.added = CountLines("added")
    /\ stats.updated = CountLines("updated")
    /\ stats.errors = CountLines("error")
    /\ \A k \in SourceKeys :
         /\ Cardinality(LinesOf("added", k)) + Cardinality(LinesOf("updated", k))
              + Cardinality(LinesOf("error", k)) <= 1
         /\ k \notin ProcessedKeys =>
              LinesOf("added", k) \cup LinesOf("updated", k) \cup LinesOf("error", k) = {}
         /\ LinesOf("added", k) # {} => k \in AddKeys
         /\ (k \in ProcessedKeys /\ k \in AddKeys /\ ~root.hasItem) =>
              Cardinality(LinesOf("error", k)) = 1
    /\ \A n \in DOMAIN log :
         log[n][1] \in {"added", "updated", "error"} => <<log[n][2], log[n][3]>> \in ProcessedKeys
    /\ stats.added + stats.updated + stats.errors <= Cardinality(SourceKeys)
    /\ stats.added <= Cardinality(AddKeys)
    /\ stats.deleted = Cardinality(DeleteKeys)

\* a finished sync in which the first key raised and the second key was
\* dealt with all the same
C24_Witness ==
  /\ AfterSync
  /\ Cardinality(SourceKeys) = 2
  /\ stats.errors = 2
  /\ stats.added = 0
  /\ \A k \in SourceKeys : Cardinality(LinesOf("error", k)) = 1

\* a finished sync that counted an addition, an update and a
\* delete-candidate
C24_MixedRun ==
  /\ AfterSync
  /\ stats.added = 1 /\ stats.updated = 1 /\ stats.deleted = 1

====
